---- MODULE Spec2Model ----
(***************************************************************************)
(* A model of the AcFun downloader: the acquisition of one video           *)
(* (AcFunDownloader._download_single_video and the two _download_stream    *)
(* tasks it runs on a thread pool), the per-video controller               *)
(* (download_video with AcFunExtractor.get_video_info / get_multi_p_info)  *)
(* and the batch controller (download_up_videos with get_up_videos).       *)
(*                                                                         *)
(* Python values are modelled as follows.  None is the string "None"       *)
(* where the other values are strings, and a record with ok = FALSE        *)
(* otherwise.  A title is a sequence of characters; a file name is a       *)
(* sequence of name pieces.  An exception that leaves a function is a      *)
(* control state "raised" of that function.                                *)
(***************************************************************************)
EXTENDS Integers, Sequences, FiniteSets, TLC

VARIABLES
    \* ---- inputs of one acquisition (_download_single_video) ----
    quality,        \* the requested quality label
    title,          \* the title argument, a sequence of characters
    env_streams,    \* what a stub of _get_video_streams returns
    resolver,       \* what the real _get_video_streams meets, or Patched
    max_workers,    \* self.max_workers
    files0,         \* the output directory when the acquisition starts
    \* ---- state of one acquisition ----
    pc,             \* where the orchestrator is
    streams,        \* local `streams`
    selected,       \* the tier of local `selected_stream`, "None" if unset
    notices,        \* substitution notices printed (lines 111 and 120)
    safe_title,     \* local `safe_title`
    task,           \* the two _download_stream tasks on the executor
    files,          \* the output directory
    probe,          \* outcome of `ffmpeg -version`
    merge,          \* outcome of the ffmpeg merge command
    events,         \* the orchestrator's side effects, in order
    result,         \* the value _download_single_video returned
    \* ---- download_video and the extractor ----
    dv_pc,          \* where download_video is
    page,           \* the video page the site serves for the vid
    requests,       \* the page requests the extractor has sent, in order
    video_info,     \* local `video_info`, the value of get_video_info
    part_info,      \* the value get_multi_p_info returned to get_video_info
    acquire_calls,  \* the calls of _download_single_video, in order
    dv_result,      \* the value download_video returned
    \* ---- get_up_videos ----
    cat_pc,         \* where get_up_videos is
    fetch_all_pages,\* its argument
    video_count,    \* local `video_count`
    total_pages,    \* local `total_pages`
    page_no,        \* the loop variable `page`
    video_list,     \* local `video_list`
    cat_log,        \* the catalog requests and the sleeps, in order
    cat_result,     \* the value get_up_videos returned
    \* ---- download_up_videos ----
    up_pc,          \* where download_up_videos is
    max_videos,     \* its argument, NoCap for None
    attempted,      \* the videos handed to download_video (line 298), in order
    successful,     \* local `successful`
    pauses,         \* how often the loop has slept (line 305)
    up_result,      \* the value download_up_videos returned
    \* ---- main (cli.py) ----
    command,        \* parsed_args.command, "none" when main is not running
    all_pages,      \* parsed_args.all_pages
    main_pc,        \* where main is
    exit_code,      \* the value main returned
    \* ---- a dict keyed by identifiers (models.py) ----
    id_map,         \* the dict: its entries, each a key with its value
    id_last,        \* for each key stored so far, the value stored last
    id_found        \* what the last lookup returned

acq_inputs == <<quality, title, env_streams, resolver, max_workers, files0>>
acq_state  == <<pc, streams, selected, notices, safe_title, task, files,
                probe, merge, events, result>>
dv_vars == <<dv_pc, page, requests, video_info, part_info, acquire_calls,
            dv_result>>
cat_vars == <<cat_pc, fetch_all_pages, video_count, total_pages, page_no,
              video_list, cat_log, cat_result>>
up_vars == <<up_pc, max_videos, attempted, successful, pauses, up_result>>
cli_vars == <<command, all_pages, main_pc, exit_code>>
id_vars == <<id_map, id_last, id_found>>
vars == <<acq_inputs, acq_state, dv_vars, cat_vars, up_vars, cli_vars, id_vars>>

-----------------------------------------------------------------------------
(* Bounds of the model *)

\* how many distinct values os.urandom(4).hex() takes in the model
NumTokens == 2
\* the largest thread-pool size explored (any size >= 2 runs both tasks at once)
MaxWorkers == 2

-----------------------------------------------------------------------------
(* Values *)

\* downloader.py:100
qualities == <<"1080p", "720p", "480p", "360p">>

QualitySet == {qualities[k] : k \in 1..Len(qualities)}

\* a label that is not one of the four tiers
UnknownLabel == "4k"

Labels == QualitySet \cup {UnknownLabel}

\* a Stream Set is modelled by its key set and, for each key, the set of
\* locations its entry carries
NoStreams == [ok |-> FALSE, tiers |-> {}, entries |-> <<>>]

StreamSet(S) ==
    [ok |-> TRUE, tiers |-> S, entries |-> [q \in S |-> {"video", "audio"}]]

\* every value _get_video_streams may hand to _download_single_video
StreamSetInputs == {NoStreams} \cup {StreamSet(S) : S \in SUBSET QualitySet}

Hex == <<"00000000", "00000001", "00000002", "00000003">>

Tokens == {Hex[k] : k \in 1..NumTokens}

StreamTypes == {"video", "audio"}

\* titles of the acquisition: plain, with forbidden characters, and one that
\* is already the sanitized form of another
Titles == { <<"a">>, <<"a", "/", "b">>, <<"a", "_", "b">> }

NoPath == <<>>

-----------------------------------------------------------------------------
(* Pure functions of the acquisition *)

\* the character class of re.sub(r'[<>:"/\\|?*]', '_', title)
Forbidden == {"<", ">", ":", "\"", "/", "\\", "|", "?", "*"}

\* a substitution that deletes the forbidden characters
sanitize_deleting(t) == SelectSeq(t, LAMBDA c : c \notin Forbidden)

\* re.sub(r'[<>:"/\\|?*]', '_', title), downloader.py:128 and happy.py:14
sanitize(t) == [k \in 1..Len(t) |-> IF t[k] \in Forbidden THEN "_" ELSE t[k]]

\* qualities[q_idx] with Python's 0-based index
QualityAt(k) == qualities[k + 1]

IndexOf(q) == CHOOSE k \in 0..(Len(qualities) - 1) : QualityAt(k) = q

\* an index that sends an unrecognized label to the highest tier
quality_idx_top(q) == IF q \in QualitySet THEN IndexOf(q) ELSE 0

\* qualities.index(quality) if quality in qualities else 1
quality_idx(q) == IF q \in QualitySet THEN IndexOf(q) ELSE 1

\* for q_idx in range(quality_idx, len(qualities)): first q in streams
RECURSIVE ScanDown(_, _)
ScanDown(S, k) ==
    IF k >= Len(qualities) THEN "None"
    ELSE IF QualityAt(k) \in S THEN QualityAt(k)
    ELSE ScanDown(S, k + 1)

\* a scan that starts at the highest tier instead of at quality_idx - 1
ScanUpFromTop(S, k) == ScanDown(S, 0)

\* for q_idx in range(quality_idx - 1, -1, -1): first q in streams
RECURSIVE ScanUp(_, _)
ScanUp(S, k) ==
    IF k < 0 THEN "None"
    ELSE IF QualityAt(k) \in S THEN QualityAt(k)
    ELSE ScanUp(S, k - 1)

\* a downward scan that never prints the notice
DownNoticeNever(q, requested) == FALSE

\* the notice of the downward scan: `if q != quality: print(...)`
DownNotice(q, requested) == q # requested

\* lines 103-121: the tier selected and whether a notice is printed
select_stream(S, requested) ==
    LET i == quality_idx(requested)
        d == ScanDown(S, i)
        u == IF i > 0 THEN ScanUp(S, i - 1) ELSE "None"
    IN  IF d # "None"
        THEN [tier |-> d, notice |-> DownNotice(d, requested)]
        ELSE [tier |-> u, notice |-> u # "None"]

\* file names of the output directory
TempName(t, tok) == <<"temp_", t, "_", tok>>

MergedName(st) == st \o <<".mp4">>

VideoName(st) == st \o <<"_video.mp4">>

AudioName(st) == st \o <<"_audio.m4a">>

IsTemp(f) == Len(f) = 4 /\ f[1] = "temp_"

TempFiles(F) == {f \in F : IsTemp(f)}

-----------------------------------------------------------------------------
(* AcFunDownloader._get_video_streams, downloader.py:177-229 *)

\* what the resolver meets: the page request fails (line 198), the page has
\* no window.videoInfo blob (line 204), json.loads rejects the blob (line
\* 209), or all three succeed
ResolverOutcomes == {"request_failed", "no_video_info", "bad_json", "ok"}

\* _get_video_streams is replaced by a stub, as the tests of
\* _download_single_video do
Patched == "patched"

\* lines 213-223: the dict the resolver builds
placeholder_streams ==
    [q \in {"720p", "480p"} |->
        [video |-> <<"video", q, ".m3u8">>, audio |-> <<"audio", ".m3u8">>]]

\* a resolver that does not decode the blob
_get_video_streams_undecoded(outcome) ==
    IF outcome \in {"ok", "bad_json"}
    THEN [ok |-> TRUE, tiers |-> DOMAIN placeholder_streams,
          entries |-> [q \in DOMAIN placeholder_streams |->
                          DOMAIN placeholder_streams[q]]]
    ELSE NoStreams

_get_video_streams(outcome) ==
    IF outcome = "ok"
    THEN [ok |-> TRUE, tiers |-> DOMAIN placeholder_streams,
          entries |-> [q \in DOMAIN placeholder_streams |->
                          DOMAIN placeholder_streams[q]]]
    ELSE NoStreams

\* self._get_video_streams(vid) as the acquisition sees it
resolved_streams ==
    IF resolver = Patched THEN env_streams ELSE _get_video_streams(resolver)

-----------------------------------------------------------------------------
(* The acquisition: _download_single_video, downloader.py:81-175 *)

NoTask == [pc |-> "none", path |-> NoPath, ret |-> NoPath]

QueuedTask == [pc |-> "queued", path |-> NoPath, ret |-> NoPath]

Return(r) ==
    /\ pc' = "returned"
    /\ result' = r

\* lines 92-96: streams = self._get_video_streams(vid); if not streams: return False
GetStreams ==
    /\ pc = "call"
    /\ streams' = resolved_streams
    /\ IF ~resolved_streams.ok \/ resolved_streams.tiers = {}
       THEN Return(FALSE)
       ELSE pc' = "select" /\ UNCHANGED result
    /\ UNCHANGED <<cli_vars, id_vars, cat_vars, up_vars, dv_vars, acq_inputs, selected, notices, safe_title, task, files,
                   probe, merge, events>>

\* lines 98-134: the fallback scan, the notice, the sanitized title and the
\* submission of the two stream downloads to the executor
SelectQuality ==
    /\ pc = "select"
    /\ LET s == select_stream(streams.tiers, quality)
       IN  /\ selected' = s.tier
           /\ notices' = IF s.notice
                         THEN Append(notices, [requested |-> quality, used |-> s.tier])
                         ELSE notices
           /\ IF s.tier = "None"
              THEN /\ Return(FALSE)
                   /\ UNCHANGED <<safe_title, task>>
              ELSE /\ safe_title' = sanitize(title)
                   /\ task' = [t \in StreamTypes |-> QueuedTask]
                   /\ pc' = "video_result"
                   /\ UNCHANGED result
    /\ UNCHANGED <<cli_vars, id_vars, cat_vars, up_vars, dv_vars, acq_inputs, streams, files, probe, merge, events>>

-----------------------------------------------------------------------------
(* One stream download: _download_stream, downloader.py:231-269 *)

Running == {t \in StreamTypes : task[t].pc \in {"requesting", "writing"}}

\* a worker thread of the pool takes the next work item (FIFO) and runs
\* line 246: temp_file = join(output_dir, f"temp_{stream_type}_{urandom(4).hex()}")
TaskBegin(t) ==
    /\ task[t].pc = "queued"
    /\ Cardinality(Running) < max_workers
    /\ t = "audio" => task["video"].pc # "queued"
    /\ \E tok \in Tokens :
         task' = [task EXCEPT ![t] = [pc |-> "requesting",
                                      path |-> TempName(t, tok),
                                      ret |-> NoPath]]
    /\ UNCHANGED <<cli_vars, id_vars, cat_vars, up_vars, dv_vars, acq_inputs, pc, streams, selected, notices, safe_title,
                   files, probe, merge, events, result>>

\* lines 248-253: the request and raise_for_status, then open(temp_file, "wb");
\* a failure is caught at line 267 and the task returns None
TaskRequest(t) ==
    /\ task[t].pc = "requesting"
    /\ \E ok \in BOOLEAN :
         IF ok
         THEN /\ files' = files \cup {task[t].path}
              /\ task' = [task EXCEPT ![t].pc = "writing"]
         ELSE /\ task' = [task EXCEPT ![t].pc = "done", ![t].ret = NoPath]
              /\ UNCHANGED files
    /\ UNCHANGED <<cli_vars, id_vars, cat_vars, up_vars, dv_vars, acq_inputs, pc, streams, selected, notices, safe_title,
                   probe, merge, events, result>>

\* lines 260-269: the chunk loop; it returns temp_file, or None when a chunk
\* fails (the except clause does not remove the partly written file)
TaskWrite(t) ==
    /\ task[t].pc = "writing"
    /\ \E ok \in BOOLEAN :
         task' = [task EXCEPT ![t].pc = "done",
                              ![t].ret = IF ok THEN task[t].path ELSE NoPath]
    /\ UNCHANGED <<cli_vars, id_vars, cat_vars, up_vars, dv_vars, acq_inputs, pc, streams, selected, notices, safe_title,
                   files, probe, merge, events, result>>

-----------------------------------------------------------------------------
(* The join, the probe and the merge: downloader.py:136-175 *)

\* a join that does not wait for the task
future_ready(t) == TRUE

\* Future.result() returns once the task has finished
future_done(t) == task[t].pc = "done"

\* line 136: video_path = video_future.result()
VideoResult ==
    /\ pc = "video_result"
    /\ future_done("video")
    /\ pc' = "audio_result"
    /\ UNCHANGED <<cli_vars, id_vars, cat_vars, up_vars, dv_vars, acq_inputs, streams, selected, notices, safe_title, task,
                   files, probe, merge, events, result>>

\* lines 137-141: audio_path = audio_future.result();
\* if not video_path or not audio_path: return False
AudioResult ==
    /\ pc = "audio_result"
    /\ future_done("audio")
    /\ IF task["video"].ret = NoPath \/ task["audio"].ret = NoPath
       THEN Return(FALSE)
       ELSE pc' = "probe" /\ UNCHANGED result
    /\ UNCHANGED <<cli_vars, id_vars, cat_vars, up_vars, dv_vars, acq_inputs, streams, selected, notices, safe_title, task,
                   files, probe, merge, events>>

\* os.rename(src, dst): dst replaces whatever was there
rename(F, src, dst) == (F \ {src}) \cup {dst}

\* the outcome of the degraded path that reports failure
degraded_result_false == FALSE

\* line 156: the degraded path returns True
degraded_result == TRUE

\* lines 144-156: subprocess.run(["ffmpeg", "-version"], check=True); when it
\* raises, the two temp files are renamed and the acquisition returns True
Probe ==
    /\ pc = "probe"
    /\ \E ok \in BOOLEAN :
         IF ok
         THEN /\ probe' = "ok"
              /\ events' = Append(events, "probe")
              /\ pc' = "merge"
              /\ UNCHANGED <<files, result>>
         ELSE /\ probe' = "failed"
              /\ files' = rename(rename(files, task["video"].ret, VideoName(safe_title)),
                                 task["audio"].ret, AudioName(safe_title))
              /\ events' = events \o <<"probe", "rename_video", "rename_audio">>
              /\ Return(degraded_result)
    /\ UNCHANGED <<cli_vars, id_vars, cat_vars, up_vars, dv_vars, acq_inputs, streams, selected, notices, safe_title, task, merge>>

\* a removal that leaves the file where it is
remove_nothing(F, f) == F

\* os.remove(f)
remove(F, f) == F \ {f}

\* what running the merge command can do: succeed and write the output, fail
\* before the output is opened, or fail after it started writing the output
MergeOutcomes == {"ok", "failed", "failed_partial"}

\* lines 173-175: except Exception: return False
merge_failed_result == FALSE

\* lines 158-175: subprocess.run(cmd, check=True) writes output_filename; on
\* success both temp files are removed and the acquisition returns True; on
\* failure nothing is removed, neither the temp files nor output_filename
Merge ==
    /\ pc = "merge"
    /\ \E out \in MergeOutcomes :
         /\ merge' = out
         /\ IF out = "ok"
            THEN /\ files' = remove(remove(files \cup {MergedName(safe_title)},
                                            task["video"].ret),
                                     task["audio"].ret)
                 /\ events' = events \o <<"merge", "remove_video", "remove_audio">>
                 /\ Return(TRUE)
            ELSE /\ files' = IF out = "failed_partial"
                             THEN files \cup {MergedName(safe_title)}
                             ELSE files
                 /\ events' = Append(events, "merge")
                 /\ Return(merge_failed_result)
    /\ UNCHANGED <<cli_vars, id_vars, cat_vars, up_vars, dv_vars, acq_inputs, streams, selected, notices, safe_title, task, probe>>

-----------------------------------------------------------------------------
(* Python values the extractor passes around *)

\* an optional element or attribute of a page: <<>> when absent, <<x>> when x
Absent == <<>>

Some(x) == <<x>>

IsPresent(o) == o # Absent

ValueOf(o) == o[1]

PyBool(b) == [type |-> "bool", value |-> b]

PyList(xs) == [type |-> "list", items |-> xs]

\* models.py:43-47
PartVideoMetadata(v, t) == [type |-> "PartVideoMetadata", vid |-> v, title |-> t]

\* models.py:49-53, a NamedTuple of two fields
MultiPartInfo(h, pl) ==
    [type |-> "MultiPartInfo", has_multi_part |-> h, part_list |-> pl]

\* len(x): a NamedTuple has one item per field
py_len(x) == IF x.type = "list" THEN Len(x.items) ELSE 2

\* bool(x) of a list or a tuple
py_truthy(x) == py_len(x) > 0

\* the items `for part in x` visits
py_iter(x) ==
    IF x.type = "list" THEN x.items
    ELSE <<PyBool(x.has_multi_part), PyList(x.part_list)>>

\* get_multi_p_info has not been called
NotCalled == [type |-> "NotCalled"]

\* whether item["url"] evaluates: only a dict can be indexed by a string; a
\* bool, a list and a NamedTuple raise TypeError
py_has_str_item(item) == item.type = "dict"

-----------------------------------------------------------------------------
(* The video page *)

\* how many entries a part-list region holds at most
MaxParts == 2

PageTitle == <<"T">>

PartTitle == <<"p">>

BaseVid == "12345"

\* one <li class="single-p">: its title attribute and whether its data-href
\* holds ac<digits>_<digits>
PartEntries == [title : {Some(PartTitle)}, href_ok : BOOLEAN]

PartRegions ==
    {Absent} \cup
    {Some(es) : es \in UNION {[1..n -> PartEntries] : n \in 0..MaxParts}}

Pages ==
    [ title    : {Absent, Some(PageTitle)},
      up_info  : {"absent", "name", "name_uid"},
      time     : {"absent", "valid", "invalid"},
      cover    : {Absent, Some("cover.jpg")},
      parts    : PartRegions ]

\* the part identifier "<base>_<k>" of the k-th entry
PartVid(k) == <<BaseVid, "_", k>>

NoVid == <<>>

-----------------------------------------------------------------------------
(* AcFunExtractor.get_multi_p_info, extractor.py:128-185 *)

\* lines 163-177: one PartVideoMetadata per <li>, in document order; an entry
\* whose data-href does not match gets the empty vid
parse_parts(es) ==
    [k \in 1..Len(es) |->
        PartVideoMetadata(IF es[k].href_ok THEN PartVid(k) ELSE NoVid,
                          ValueOf(es[k].title))]

get_multi_p_info(fetch_ok, pg) ==
    IF ~fetch_ok THEN PyList(<<>>)
    ELSE IF ~IsPresent(pg.parts) THEN MultiPartInfo(FALSE, <<>>)
    ELSE MultiPartInfo(TRUE, parse_parts(ValueOf(pg.parts)))

-----------------------------------------------------------------------------
(* AcFunExtractor.get_video_info, extractor.py:41-126 *)

UnknownTitle == <<"Unknown Title">>

NoInfo ==
    [ok |-> FALSE, title |-> <<>>, cover_url |-> "", uploader_uid |-> "",
     uploader_name |-> "", upload_date |-> "", has_multi_p |-> FALSE,
     multi_p |-> <<>>]

\* lines 66-99: every lookup with its default
parsed_title(pg) == IF IsPresent(pg.title) THEN ValueOf(pg.title) ELSE UnknownTitle

parsed_uploader_name(pg) == IF pg.up_info = "absent" THEN "Unknown" ELSE "up"

parsed_uploader_uid(pg) == IF pg.up_info = "name_uid" THEN "9876" ELSE "0"

parsed_upload_date(pg) == IF pg.time = "valid" THEN "parsed" ELSE "now"

parsed_cover_url(pg) == IF IsPresent(pg.cover) THEN ValueOf(pg.cover) ELSE ""

\* lines 107-112: the loop over part_list raises at the first item that
\* cannot be indexed by "url"
parts_loop_raises(part_list) ==
    \E k \in 1..Len(py_iter(part_list)) : ~py_has_str_item(py_iter(part_list)[k])

\* lines 58-126; fetch1 is the request of line 59, fetch2 the request that
\* get_multi_p_info (line 104) sends for the same page
get_video_info(fetch1, fetch2, pg) ==
    IF ~fetch1 THEN NoInfo
    ELSE LET part_list == get_multi_p_info(fetch2, pg)
             multi == py_truthy(part_list) /\ py_len(part_list) > 1
         IN  IF multi /\ parts_loop_raises(part_list)
             THEN NoInfo
             ELSE [ok |-> TRUE,
                   title |-> parsed_title(pg),
                   cover_url |-> parsed_cover_url(pg),
                   uploader_uid |-> parsed_uploader_uid(pg),
                   uploader_name |-> parsed_uploader_name(pg),
                   upload_date |-> parsed_upload_date(pg),
                   has_multi_p |-> multi,
                   multi_p |-> <<>>]

-----------------------------------------------------------------------------
(* AcFunDownloader.download_video, downloader.py:34-79 *)

\* line 79: return self._download_single_video(vid_str, video_info["title"], quality)
CallAcquire(v, t) ==
    /\ acquire_calls' = Append(acquire_calls, [vid |-> v, title |-> t])
    /\ title' = t
    /\ pc' = "call"

\* lines 49-58: video_info = self.extractor.get_video_info(vid_str), the
\* early return and the choice between the multi-part and the single branch
GetVideoInfo ==
    /\ dv_pc = "call"
    /\ \E fetch1 \in BOOLEAN, fetch2 \in BOOLEAN :
         LET info == get_video_info(fetch1, fetch2, page)
         IN  /\ video_info' = info
             /\ part_info' = IF fetch1 THEN get_multi_p_info(fetch2, page)
                                      ELSE part_info
             /\ requests' = requests \o
                   (IF fetch1
                    THEN << [by |-> "get_video_info", ok |-> TRUE],
                            [by |-> "get_multi_p_info", ok |-> fetch2] >>
                    ELSE << [by |-> "get_video_info", ok |-> FALSE] >>)
             /\ IF ~info.ok
                THEN /\ dv_pc' = "returned"
                     /\ dv_result' = FALSE
                     /\ UNCHANGED <<acquire_calls, title, pc>>
                ELSE IF info.has_multi_p
                THEN /\ dv_pc' = "parts"
                     /\ UNCHANGED <<dv_result, acquire_calls, title, pc>>
                ELSE /\ dv_pc' = "acquiring"
                     /\ CallAcquire(BaseVid, info.title)
                     /\ UNCHANGED dv_result
    /\ UNCHANGED <<cli_vars, id_vars, page, quality, env_streams, resolver, max_workers, files0,
                   streams, selected, notices, safe_title, task, files,
                   probe, merge, events, result, cat_vars, up_vars>>

\* line 79: the value of the acquisition is the value of download_video
ReturnAcquired ==
    /\ dv_pc = "acquiring"
    /\ pc = "returned"
    /\ dv_pc' = "returned"
    /\ dv_result' = result
    /\ UNCHANGED <<cli_vars, id_vars, page, requests, video_info, part_info, acquire_calls,
                   acq_inputs, acq_state, cat_vars, up_vars>>

-----------------------------------------------------------------------------
(* AcFunExtractor.get_up_videos, extractor.py:187-279 *)

\* the page size the code assumes (extractor.py:233)
PageSize == 20

\* the most catalog pages a declared total asks for
MaxPages == 3

\* the most entries one served catalog page holds
MaxEntries == 2

\* the text of the video-count element: absent, not a number, or a total
CountTexts ==
    { [kind |-> "absent", n |-> 0], [kind |-> "text", n |-> 0] } \cup
    { [kind |-> "int", n |-> n] :
        n \in {0, PageSize, PageSize + 1, (MaxPages - 1) * PageSize,
               (MaxPages - 1) * PageSize + 1} }

\* one entry of cat_log: a page request with the number of entries the page
\* served, or a sleep
RequestEntry(p, ok, n) == [kind |-> "request", page |-> p, ok |-> ok, entries |-> n]

SleepEntry(p) == [kind |-> "sleep", page |-> p, ok |-> TRUE, entries |-> 0]

\* a parse that lists the elements of a page last to first
_parse_video_page_reversed(p, n) ==
    [k \in 1..n |-> [type |-> "dict", page |-> p, pos |-> n + 1 - k]]

\* _parse_video_page (extractor.py:281-332): one VideoMetadata per
\* a.ac-space-video element, in document order
_parse_video_page(p, n) ==
    [k \in 1..n |-> [type |-> "dict", page |-> p, pos |-> k]]

\* a page count that drops the last, partly filled page
total_pages_floor(count) == count \div PageSize

\* line 235: (video_count // 20) + (1 if video_count % 20 > 0 else 0)
total_pages_of(count) ==
    (count \div PageSize) + (IF count % PageSize > 0 THEN 1 ELSE 0)

NoCatalog == [ok |-> FALSE, value |-> PyList(<<>>)]

\* lines 205-235 and 275: the landing page, the declared total and the first
\* page's entries; a RequestException returns None (line 277), a count text
\* that int() rejects raises ValueError, which line 277 does not catch
CatalogFirstPage ==
    /\ cat_pc = "first"
    /\ \E ok \in BOOLEAN, c \in CountTexts, n \in 0..MaxEntries :
         /\ cat_log' = Append(cat_log, RequestEntry(1, ok, IF ok THEN n ELSE 0))
         /\ IF ~ok
            THEN /\ cat_pc' = "returned"
                 /\ cat_result' = NoCatalog
                 /\ UNCHANGED <<video_count, total_pages, page_no, video_list>>
            ELSE IF c.kind = "text"
            THEN /\ cat_pc' = "raised"
                 /\ UNCHANGED <<video_count, total_pages, page_no, video_list,
                                cat_result>>
            ELSE /\ video_count' = c.n
                 /\ video_list' = _parse_video_page(1, n)
                 /\ IF fetch_all_pages /\ c.n > PageSize
                    THEN /\ total_pages' = total_pages_of(c.n)
                         /\ page_no' = 2
                         /\ cat_pc' = "pages"
                         /\ UNCHANGED cat_result
                    ELSE /\ cat_pc' = "returned"
                         /\ cat_result' = [ok |-> TRUE,
                                           value |-> PyList(_parse_video_page(1, n))]
                         /\ UNCHANGED <<total_pages, page_no>>
    /\ UNCHANGED <<cli_vars, id_vars, fetch_all_pages, up_vars, dv_vars, acq_inputs, acq_state>>

\* a loop that leaves out every other page
next_page_skipping(p) == p + 2

\* line 238: range(2, total_pages + 1) steps by one, whether the pass ended
\* normally or in the except clause of line 272
next_page(p) == p + 1

\* lines 238-273: one pass of `for page in range(2, total_pages + 1)`; the
\* sleep of line 270 is inside the try block, after the page was parsed
CatalogNextPage ==
    /\ cat_pc = "pages"
    /\ page_no <= total_pages
    /\ \E ok \in BOOLEAN, n \in 0..MaxEntries :
         IF ok
         THEN /\ video_list' = video_list \o _parse_video_page(page_no, n)
              /\ cat_log' = cat_log \o
                    << RequestEntry(page_no, TRUE, n), SleepEntry(page_no) >>
         ELSE /\ UNCHANGED video_list
              /\ cat_log' = Append(cat_log, RequestEntry(page_no, FALSE, 0))
    /\ page_no' = next_page(page_no)
    /\ UNCHANGED <<cli_vars, id_vars, cat_pc, fetch_all_pages, video_count, total_pages, cat_result,
                   up_vars, dv_vars, acq_inputs, acq_state>>

\* line 275: return video_list
CatalogReturn ==
    /\ cat_pc = "pages"
    /\ page_no > total_pages
    /\ cat_pc' = "returned"
    /\ cat_result' = [ok |-> TRUE, value |-> PyList(video_list)]
    /\ UNCHANGED <<cli_vars, id_vars, fetch_all_pages, video_count, total_pages, page_no, video_list,
                   cat_log, up_vars, dv_vars, acq_inputs, acq_state>>

-----------------------------------------------------------------------------
(* AcFunDownloader.download_up_videos, downloader.py:271-308 *)

\* line 271: max_videos: int = None
NoCap == -1

\* a call that hands the --all-pages flag on to the extractor
catalog_flag_from_cli(flag) == flag

\* line 283 passes fetch_all_pages=True, whatever --all-pages was
catalog_flag(flag) == TRUE

\* line 283: user_info = self.extractor.get_up_videos(uid, fetch_all_pages=True)
CallGetUpVideos ==
    /\ up_pc = "call"
    /\ up_pc' = "catalog"
    /\ cat_pc' = "first"
    /\ fetch_all_pages' = catalog_flag(all_pages)
    /\ UNCHANGED <<cli_vars, id_vars, video_count, total_pages, page_no, video_list, cat_log,
                   cat_result, max_videos, attempted, successful, pauses,
                   up_result,
                   dv_vars, acq_inputs, acq_state>>

\* line 288: user_info["videos"] evaluates only when user_info is a dict
subscript_videos(user_info) == py_has_str_item(user_info)

\* lines 284-288: `if not user_info: return 0`, then videos = user_info["videos"];
\* an exception of get_up_videos or of the subscript leaves download_up_videos
AfterGetUpVideos ==
    /\ up_pc = "catalog"
    /\ cat_pc \in {"returned", "raised"}
    /\ IF cat_pc = "raised"
       THEN up_pc' = "raised" /\ UNCHANGED up_result
       ELSE IF ~cat_result.ok \/ ~py_truthy(cat_result.value)
       THEN up_pc' = "returned" /\ up_result' = 0
       ELSE IF subscript_videos(cat_result.value)
       THEN up_pc' = "loop" /\ UNCHANGED up_result
       ELSE up_pc' = "raised" /\ UNCHANGED up_result
    /\ UNCHANGED <<cli_vars, id_vars, cat_vars, max_videos, attempted, successful, pauses,
                   dv_vars, acq_inputs, acq_state>>

-----------------------------------------------------------------------------
(* Specification of one acquisition, entered at _download_single_video *)

\* the locals of an acquisition that has not run yet
InitAcquisitionState ==
    /\ streams = NoStreams
    /\ selected = "None"
    /\ notices = <<>>
    /\ safe_title = <<>>
    /\ task = [t \in StreamTypes |-> NoTask]
    /\ files = files0
    /\ probe = "none"
    /\ merge = "none"
    /\ events = <<>>
    /\ result = "None"

\* download_video is not running
IdleVideo ==
    /\ dv_pc = "idle"
    /\ page \in {[title |-> Absent, up_info |-> "absent", time |-> "absent",
                  cover |-> Absent, parts |-> Absent]}
    /\ requests = <<>>
    /\ video_info = NoInfo
    /\ part_info = NotCalled
    /\ acquire_calls = <<>>
    /\ dv_result = "None"

\* get_up_videos and download_up_videos are not running
IdleCatalog ==
    /\ cat_pc = "idle"
    /\ fetch_all_pages = FALSE
    /\ video_count = 0
    /\ total_pages = 0
    /\ page_no = 0
    /\ video_list = <<>>
    /\ cat_log = <<>>
    /\ cat_result = NoCatalog

\* no lookup has been made
NoLookup == [key |-> [type |-> "none", value |-> ""], val |-> "None"]

\* no dict keyed by identifiers is in use
IdleIds ==
    /\ id_map = {}
    /\ id_last = {}
    /\ id_found = NoLookup

\* main has not returned
NoExitCode == -1

\* main is not running: the functions are called directly
IdleCli ==
    /\ command = "none"
    /\ all_pages = FALSE
    /\ main_pc = "idle"
    /\ exit_code = NoExitCode

IdleBatch ==
    /\ up_pc = "idle"
    /\ max_videos = NoCap
    /\ attempted = <<>>
    /\ successful = 0
    /\ pauses = 0
    /\ up_result = -1

\* the output directory an acquisition may find: empty, holding the merged
\* or the separate video output of an earlier item whose sanitized title is
\* the same, or holding a temp file an earlier failed download left behind
Directories(t) ==
    { {}, {MergedName(sanitize(t))}, {VideoName(sanitize(t))},
      {TempName("video", Hex[1])} }

Init ==
    /\ quality \in Labels
    /\ title \in Titles
    /\ env_streams \in StreamSetInputs
    /\ resolver = Patched
    /\ max_workers \in 1..MaxWorkers
    /\ files0 \in Directories(title)
    /\ pc = "call"
    /\ InitAcquisitionState
    /\ IdleCli
    /\ IdleIds
    /\ IdleVideo
    /\ IdleCatalog
    /\ IdleBatch

AcquisitionNext ==
    \/ GetStreams
    \/ SelectQuality
    \/ \E t \in StreamTypes : TaskBegin(t)
    \/ \E t \in StreamTypes : TaskRequest(t)
    \/ \E t \in StreamTypes : TaskWrite(t)
    \/ VideoResult
    \/ AudioResult
    \/ Probe
    \/ Merge

Next == AcquisitionNext

Spec == Init /\ [][Next]_vars

-----------------------------------------------------------------------------
(* Specification of download_video, as the `video` command calls it *)

\* downloader.py:20
DefaultMaxWorkers == 4

InitVideo ==
    /\ quality \in QualitySet
    /\ title = <<>>
    /\ env_streams = NoStreams
    /\ resolver \in ResolverOutcomes
    /\ max_workers = DefaultMaxWorkers
    /\ files0 = {}
    /\ pc = "idle"
    /\ InitAcquisitionState
    /\ IdleCli
    /\ IdleIds
    /\ dv_pc = "call"
    /\ page \in Pages
    /\ requests = <<>>
    /\ video_info = NoInfo
    /\ part_info = NotCalled
    /\ acquire_calls = <<>>
    /\ dv_result = "None"
    /\ IdleCatalog
    /\ IdleBatch

NextVideo ==
    \/ GetVideoInfo
    \/ ReturnAcquired
    \/ AcquisitionNext

SpecVideo == InitVideo /\ [][NextVideo]_vars

-----------------------------------------------------------------------------
(* Specification of one acquisition over the titles *)

\* the longest title explored
MaxTitleLen == 2

\* the characters of a title: every forbidden character, a letter and "_"
TitleChars == Forbidden \cup {"a", "_"}

\* every title of at most MaxTitleLen characters, and the title a/b:c*d
AllTitles ==
    UNION {[1..n -> TitleChars] : n \in 0..MaxTitleLen}
        \cup { <<"a", "/", "b", ":", "c", "*", "d">> }

InitTitle ==
    /\ quality = "720p"
    /\ title \in AllTitles
    /\ env_streams = StreamSet({"720p"})
    /\ resolver = Patched
    /\ max_workers = DefaultMaxWorkers
    /\ files0 = {}
    /\ pc = "call"
    /\ InitAcquisitionState
    /\ IdleCli
    /\ IdleIds
    /\ IdleVideo
    /\ IdleCatalog
    /\ IdleBatch

SpecTitle == InitTitle /\ [][AcquisitionNext]_vars

-----------------------------------------------------------------------------
(* Specification of download_up_videos, as the `up` command calls it *)

\* the largest max_videos explored
MaxCap == 2

InitUp ==
    /\ quality = "720p"
    /\ title = <<>>
    /\ env_streams = NoStreams
    /\ resolver = Patched
    /\ max_workers = DefaultMaxWorkers
    /\ files0 = {}
    /\ pc = "idle"
    /\ InitAcquisitionState
    /\ IdleCli
    /\ IdleIds
    /\ IdleVideo
    /\ IdleCatalog
    /\ up_pc = "call"
    /\ max_videos \in {NoCap} \cup 0..MaxCap
    /\ attempted = <<>>
    /\ successful = 0
    /\ pauses = 0
    /\ up_result = -1

NextUp ==
    \/ CallGetUpVideos
    \/ CatalogFirstPage
    \/ CatalogNextPage
    \/ CatalogReturn
    \/ AfterGetUpVideos

SpecUp == InitUp /\ [][NextUp]_vars

-----------------------------------------------------------------------------
(* Identifiers, models.py:5-34, as keys of a dict *)

\* how many id strings are explored
NumIdStrings == 2

IdString == <<"1", "2", "3">>

IdStrings == {IdString[k] : k \in 1..NumIdStrings}

\* Vid(s) and Uid(s): the subclasses of AcfunId, a NamedTuple of one field
Vid(s) == [type |-> "Vid", value |-> s]

Uid(s) == [type |-> "Uid", value |-> s]

Identifiers == {Vid(s) : s \in IdStrings} \cup {Uid(s) : s \in IdStrings}

\* values that are not identifiers: the string s and the plain tuple (s,)
PyStr(s) == [type |-> "str", value |-> s]

PyTuple(s) == [type |-> "tuple", value |-> s]

NonIdentifiers == {PyStr(IdString[1]), PyTuple(IdString[1])}

\* isinstance(other, AcfunId)
IsAcfunId(x) == x.type \in {"Vid", "Uid"}

\* the comparison a NamedTuple inherits from tuple: equal fields
tuple_eq(self, other) ==
    other.type \in {"Vid", "Uid", "tuple"} /\ self.value = other.value

\* AcfunId.__eq__, lines 19-22
AcfunId_eq(self, other) ==
    IF IsAcfunId(other) THEN self.value = other.value ELSE FALSE

\* hash() of a string and of a tuple: any function of the value will do, and
\* this one lets distinct values share a hash
StrHash(s) == (CHOOSE k \in 1..Len(IdString) : IdString[k] = s) % 2

TupleHash(s) == (StrHash(s) + 1) % 2

\* AcfunId.__hash__, lines 16-17: hash(self.value)
AcfunId_hash(self) == StrHash(self.value)

\* hash(x) and x == y for the keys of the dict: a == b calls the method of
\* the identifier, whichever side it is on (AcfunId is a subclass of tuple,
\* and str leaves the comparison to the other operand)
py_hash(x) ==
    IF IsAcfunId(x) THEN AcfunId_hash(x)
    ELSE IF x.type = "tuple" THEN TupleHash(x.value) ELSE StrHash(x.value)

py_eq(x, y) ==
    IF IsAcfunId(x) THEN AcfunId_eq(x, y)
    ELSE IF IsAcfunId(y) THEN AcfunId_eq(y, x)
    ELSE x = y

\* the entries of dict d that a lookup of key k finds
Matching(d, k) == {e \in d : py_hash(e.key) = py_hash(k) /\ py_eq(e.key, k)}

\* d[k], "KeyError" when there is no entry
dict_get(d, k) ==
    IF Matching(d, k) = {} THEN "KeyError"
    ELSE (CHOOSE e \in Matching(d, k) : TRUE).val

\* d[k] = v: the entry found keeps its key and takes the value
dict_set(d, k, v) ==
    IF Matching(d, k) = {} THEN d \cup {[key |-> k, val |-> v]}
    ELSE {IF e \in Matching(d, k) THEN [e EXCEPT !.val = v] ELSE e : e \in d}

DictKeys == Identifiers \cup NonIdentifiers

DictValues == {"x", "y"}

\* the key as the caller means it: an identifier with its string, or the
\* other value itself
KeyClass(k) == IF IsAcfunId(k) THEN <<"id", k.value>> ELSE <<k.type, k.value>>

DictStore(k, v) ==
    /\ id_map' = dict_set(id_map, k, v)
    /\ id_last' = {p \in id_last : p.k # KeyClass(k)}
                      \cup {[k |-> KeyClass(k), v |-> v]}
    /\ UNCHANGED <<id_found, acq_inputs, acq_state, dv_vars, cat_vars, up_vars,
                   cli_vars>>

DictLookup(k) ==
    /\ id_found' = [key |-> k, val |-> dict_get(id_map, k)]
    /\ UNCHANGED <<id_map, id_last, acq_inputs, acq_state, dv_vars, cat_vars,
                   up_vars, cli_vars>>

InitIds ==
    /\ quality = "720p"
    /\ title = <<>>
    /\ env_streams = NoStreams
    /\ resolver = Patched
    /\ max_workers = DefaultMaxWorkers
    /\ files0 = {}
    /\ pc = "idle"
    /\ InitAcquisitionState
    /\ IdleCli
    /\ IdleIds
    /\ IdleVideo
    /\ IdleCatalog
    /\ IdleBatch

NextIds ==
    \/ \E k \in DictKeys, v \in DictValues : DictStore(k, v)
    \/ \E k \in DictKeys : DictLookup(k)

SpecIds == InitIds /\ [][NextIds]_vars

-----------------------------------------------------------------------------
(* main, cli.py:65-119 *)

\* lines 83-86: return 0 if success else 1
MainVideo ==
    /\ command = "video"
    /\ main_pc = "running"
    /\ dv_pc = "returned"
    /\ main_pc' = "returned"
    /\ exit_code' = IF dv_result = TRUE THEN 0 ELSE 1
    /\ UNCHANGED <<id_vars, command, all_pages, acq_inputs, acq_state, dv_vars, cat_vars,
                   up_vars>>

\* lines 88-95: return 0 if successful_count > 0 else 1; an exception that
\* leaves download_up_videos leaves main
MainUp ==
    /\ command = "up"
    /\ main_pc = "running"
    /\ up_pc \in {"returned", "raised"}
    /\ IF up_pc = "raised"
       THEN main_pc' = "raised" /\ UNCHANGED exit_code
       ELSE /\ main_pc' = "returned"
            /\ exit_code' = IF up_result > 0 THEN 0 ELSE 1
    /\ UNCHANGED <<id_vars, command, all_pages, acq_inputs, acq_state, dv_vars, cat_vars,
                   up_vars>>

\* lines 97-117: video_info = extractor.get_video_info(vid); return 1 when it
\* is None; the listing of the parts (lines 110-113) when has_multi_p is set
MainInfo ==
    /\ command = "info"
    /\ main_pc = "running"
    /\ \E fetch1 \in BOOLEAN, fetch2 \in BOOLEAN :
         LET info == get_video_info(fetch1, fetch2, page)
         IN  /\ video_info' = info
             /\ part_info' = IF fetch1 THEN get_multi_p_info(fetch2, page)
                                      ELSE part_info
             /\ requests' = requests \o
                   (IF fetch1
                    THEN << [by |-> "get_video_info", ok |-> TRUE],
                            [by |-> "get_multi_p_info", ok |-> fetch2] >>
                    ELSE << [by |-> "get_video_info", ok |-> FALSE] >>)
             /\ IF ~info.ok
                THEN main_pc' = "returned" /\ exit_code' = 1
                ELSE IF info.has_multi_p
                THEN main_pc' = "parts" /\ UNCHANGED exit_code
                ELSE main_pc' = "returned" /\ exit_code' = 0
    /\ UNCHANGED <<id_vars, command, all_pages, acq_inputs, acq_state, dv_pc, page,
                   acquire_calls, dv_result, cat_vars, up_vars>>

\* the page of a command that resolves no video
NoPage ==
    [title |-> Absent, up_info |-> "absent", time |-> "absent",
     cover |-> Absent, parts |-> Absent]

\* lines 74-85, 90 and 98-99: the arguments are parsed and the command's
\* function is called
InitCli ==
    /\ command \in {"video", "up", "info"}
    /\ all_pages \in (IF command = "up" THEN BOOLEAN ELSE {FALSE})
    /\ main_pc = "running"
    /\ exit_code = NoExitCode
    /\ IdleIds
    /\ quality \in QualitySet
    /\ title = <<>>
    /\ env_streams = NoStreams
    /\ resolver \in (IF command = "video" THEN ResolverOutcomes ELSE {"ok"})
    /\ max_workers = DefaultMaxWorkers
    /\ files0 = {}
    /\ pc = "idle"
    /\ streams = NoStreams
    /\ selected = "None"
    /\ notices = <<>>
    /\ safe_title = <<>>
    /\ task = [t \in StreamTypes |-> NoTask]
    /\ files = files0
    /\ probe = "none"
    /\ merge = "none"
    /\ events = <<>>
    /\ result = "None"
    /\ dv_pc = (IF command = "video" THEN "call" ELSE "idle")
    /\ page \in (IF command = "up" THEN {NoPage} ELSE Pages)
    /\ requests = <<>>
    /\ video_info = NoInfo
    /\ part_info = NotCalled
    /\ acquire_calls = <<>>
    /\ dv_result = "None"
    /\ IdleCatalog
    /\ up_pc = (IF command = "up" THEN "call" ELSE "idle")
    /\ max_videos \in (IF command = "up" THEN {NoCap} \cup 0..MaxCap ELSE {NoCap})
    /\ attempted = <<>>
    /\ successful = 0
    /\ pauses = 0
    /\ up_result = -1

NextCli ==
    \/ NextVideo
    \/ NextUp
    \/ MainVideo
    \/ MainUp
    \/ MainInfo

SpecCli == InitCli /\ [][NextCli]_vars

-----------------------------------------------------------------------------
(* Specification of get_up_videos, called with either value of the flag *)

InitCatalog ==
    /\ quality = "720p"
    /\ title = <<>>
    /\ env_streams = NoStreams
    /\ resolver = Patched
    /\ max_workers = DefaultMaxWorkers
    /\ files0 = {}
    /\ pc = "idle"
    /\ InitAcquisitionState
    /\ IdleCli
    /\ IdleIds
    /\ IdleVideo
    /\ IdleBatch
    /\ cat_pc = "first"
    /\ fetch_all_pages \in BOOLEAN
    /\ video_count = 0
    /\ total_pages = 0
    /\ page_no = 0
    /\ video_list = <<>>
    /\ cat_log = <<>>
    /\ cat_result = NoCatalog

NextCatalog ==
    \/ CatalogFirstPage
    \/ CatalogNextPage
    \/ CatalogReturn

SpecCatalog == InitCatalog /\ [][NextCatalog]_vars

-----------------------------------------------------------------------------
(* Properties of one acquisition *)

\* the fallback scan has run
Selecting == pc \in {"call", "select"}

Submitted == task["video"].pc # "none"

Present(S, k) == QualityAt(k) \in S

LastIndex == Len(qualities) - 1

\* q is the first tier of S met at indices i, i+1, ..., 3
FirstDownward(S, i, q) ==
    \E k \in i..LastIndex :
        /\ q = QualityAt(k)
        /\ Present(S, k)
        /\ \A j \in i..(k - 1) : ~Present(S, j)

\* q is the first tier of S met at indices i-1, i-2, ..., 0
FirstUpward(S, i, q) ==
    \E k \in 0..(i - 1) :
        /\ q = QualityAt(k)
        /\ Present(S, k)
        /\ \A j \in (k + 1)..(i - 1) : ~Present(S, j)

\* C1: for every Stream Set S within the four tiers and every requested tier
\* with index i, the selected tier is the first tier of S at indices i..3,
\* and when there is none the first tier of S at indices i-1..0; the
\* selection fails, and the acquisition returns False, exactly when S is
\* empty; a selected tier is a member of S.
C1_QualityFallback ==
    (~Selecting /\ streams.ok /\ quality \in QualitySet) =>
        LET S == streams.tiers
            i == IndexOf(quality)
        IN  /\ (selected = "None") <=> (S = {})
            /\ selected = "None" => (pc = "returned" /\ result = FALSE /\ ~Submitted)
            /\ selected # "None" =>
                 /\ selected \in S
                 /\ Submitted
                 /\ IF \E k \in i..LastIndex : Present(S, k)
                    THEN FirstDownward(S, i, selected)
                    ELSE FirstUpward(S, i, selected)

\* 360p is requested, 1080p and 720p are offered: the upward scan stops at 720p
C1_Witness ==
    /\ ~Selecting
    /\ quality = "360p"
    /\ streams = StreamSet({"1080p", "720p"})
    /\ selected = "720p"

\* C2: every exit of the acquisition leaves no temp file in the output
\* directory, and a failed stream download makes it return False.
C2_NoOrphanedTempFiles ==
    pc = "returned" =>
        /\ TempFiles(files) = {}
        /\ (Submitted /\ \E t \in StreamTypes : task[t].ret = NoPath) => result = FALSE

\* C3: the orchestrator probes, merges or returns only after both stream
\* downloads have finished, and a download that has not finished can always
\* take its next step once the pool has a free worker, whatever happened
\* to the other download.
C3_JoinOnBothDownloads ==
    /\ (Submitted /\ pc \in {"probe", "merge", "returned"}) =>
          \A t \in StreamTypes : task[t].pc = "done"
    /\ \A t \in StreamTypes :
          task[t].pc \in {"requesting", "writing"} =>
              ENABLED (TaskRequest(t) \/ TaskWrite(t))
    /\ (task["audio"].pc = "queued" /\ task["video"].pc = "done") =>
          ENABLED TaskBegin("audio")
    /\ (probe # "none" \/ merge # "none") =>
          \A t \in StreamTypes : task[t].ret # NoPath

\* the video download failed, the audio download still ran to its end
C3_Witness ==
    /\ pc = "returned"
    /\ result = FALSE
    /\ task["video"].pc = "done" /\ task["video"].ret = NoPath
    /\ task["audio"].pc = "done" /\ task["audio"].ret # NoPath

C7_MergeFailure ==
    (pc = "returned" /\ probe = "ok" /\ merge # "ok") =>
        /\ result = FALSE
        /\ MergedName(safe_title) \notin (files \ files0)

\* C8: the substitution notice is printed if and only if a tier was selected
\* that differs from the requested label, and then once, naming both.
C8_SubstitutionReported ==
    ~Selecting =>
        /\ (notices # <<>>) <=> (selected # "None" /\ selected # quality)
        /\ notices # <<>> =>
              notices = << [requested |-> quality, used |-> selected] >>

\* 1080p is requested and only 480p is offered: the downward scan substitutes
C8_Witness ==
    /\ ~Selecting
    /\ quality = "1080p"
    /\ selected = "480p"
    /\ Len(notices) = 1

\* the position of the first event e in the orchestrator's events, 0 if none
FirstEvent(e) ==
    IF \E k \in 1..Len(events) : events[k] = e
    THEN CHOOSE k \in 1..Len(events) :
            events[k] = e /\ \A j \in 1..(k - 1) : events[j] # e
    ELSE 0

Happened(e) == FirstEvent(e) > 0

ChosenPath(t) == task[t].path

\* C21: two stream downloads whose temp files are in the output directory at
\* the same time write to distinct paths: the two downloads of one
\* acquisition, and a download and a temp file that belongs to a download of
\* another acquisition.
C21_TempNamesCollisionFree ==
    \A t \in StreamTypes :
        ChosenPath(t) # NoPath =>
            /\ ChosenPath(t) \notin TempFiles(files0)
            /\ \A u \in StreamTypes \ {t} : ChosenPath(u) # ChosenPath(t)

\* the video and the audio download of one acquisition never share a path
TempNamesOfOneAcquisitionDiffer ==
    (ChosenPath("video") # NoPath /\ ChosenPath("audio") # NoPath) =>
        ChosenPath("video") # ChosenPath("audio")

\* this step writes the file named f anew
Overwrites(f) ==
    \/ /\ pc = "probe" /\ probe' = "failed"
       /\ f \in {VideoName(safe_title), AudioName(safe_title)}
    \/ /\ pc = "merge" /\ merge' \in {"ok", "failed_partial"}
       /\ f = MergedName(safe_title)

\* C22: no step of an acquisition removes or overwrites a file of the output
\* directory that is not a temp file, on the merged and on the degraded path.
C22_AppendOnlyDirectory ==
    [][\A f \in files : ~IsTemp(f) => (f \in files' /\ ~Overwrites(f))]_vars

\* the part of C22 that holds: no file other than a temp file is removed
NoOutputRemoved ==
    [][\A f \in files : ~IsTemp(f) => f \in files']_vars

\* the characters the sanitized title must not contain
ForbiddenInNames == {"<", ">", ":", "\"", "/", "\\", "|", "?", "*"}

\* the names an acquisition of the sanitized title st may give its outputs
OutputNames(st) == {MergedName(st), VideoName(st), AudioName(st)}

\* C25: the sanitized title has the length of the title, "_" wherever the
\* title has one of < > : " / \ | ? * and the title's character elsewhere,
\* and holds no forbidden character; sanitizing it again changes nothing;
\* every output path is built from the sanitized title.
C25_Sanitization ==
    Submitted =>
        /\ Len(safe_title) = Len(title)
        /\ \A k \in 1..Len(title) :
              /\ title[k] \in ForbiddenInNames => safe_title[k] = "_"
              /\ title[k] \notin ForbiddenInNames => safe_title[k] = title[k]
              /\ safe_title[k] \notin ForbiddenInNames
        /\ sanitize(safe_title) = safe_title
        /\ \A f \in files \ files0 : IsTemp(f) \/ f \in OutputNames(safe_title)

\* the title a/b:c*d was merged into a_b_c_d.mp4
C25_Witness ==
    /\ title = <<"a", "/", "b", ":", "c", "*", "d">>
    /\ pc = "returned"
    /\ files = {<<"a", "_", "b", "_", "c", "_", "d", ".mp4">>}

\* the order in which a request for 720p tries the tiers
ScanOrder720p == <<"720p", "480p", "360p", "1080p">>

\* C28: a label outside the four tiers is treated as index 1: for every
\* Stream Set the tier selected is the one a request for 720p selects, the
\* first of 720p, 480p, 360p, 1080p that the set offers.
C28_UnknownLabelAs720p ==
    (~Selecting /\ streams.ok /\ quality \notin QualitySet) =>
        IF streams.tiers = {} THEN selected = "None"
        ELSE \E k \in 1..Len(ScanOrder720p) :
                /\ selected = ScanOrder720p[k]
                /\ selected \in streams.tiers
                /\ \A j \in 1..(k - 1) : ScanOrder720p[j] \notin streams.tiers

\* an unrecognized label, 1080p and 360p offered: 360p is met before 1080p
C28_Witness ==
    /\ ~Selecting
    /\ quality = UnknownLabel
    /\ streams = StreamSet({"1080p", "360p"})
    /\ selected = "360p"

-----------------------------------------------------------------------------
(* Code that no call reaches *)

\* download_video never enters its multi-part branch (downloader.py:56-76):
\* get_video_info returns None whenever it would set has_multi_p
MultiPartBranchUnreached == dv_pc # "parts"

\* the info command never lists parts (cli.py:110-113)
InfoPartsUnreached == main_pc # "parts"

\* download_up_videos never enters its loop (downloader.py:289-308): the
\* subscript of line 288 raises for every non-empty catalog
BatchLoopUnreached ==
    up_pc # "loop" /\ attempted = <<>> /\ successful = 0 /\ pauses = 0

-----------------------------------------------------------------------------
(* Properties of the batch controller *)

BatchEnded == up_pc \in {"returned", "raised"}

\* the catalog was resolved and lists at least one video
CatalogResolved ==
    /\ cat_pc = "returned"
    /\ cat_result.ok
    /\ Len(cat_result.value.items) > 0

\* C4: for a resolved catalog of n videos, download_up_videos attempts each
\* of the n videos once, in input order, and returns the number of videos
\* whose outcome was true.
C4_BatchAggregation ==
    (BatchEnded /\ CatalogResolved) =>
        /\ up_pc = "returned"
        /\ attempted = cat_result.value.items
        /\ up_result = successful
        /\ successful <= Len(attempted)

\* C5: no failure met while one item is processed leaves download_up_videos
\* as an exception: once the catalog is resolved the batch loop reaches every
\* item and the call ends by returning its count.
C5_FailureContainment ==
    cat_pc = "returned" =>
        /\ up_pc # "raised"
        /\ (up_pc = "returned" /\ cat_result.ok) =>
              Len(attempted) = Len(cat_result.value.items)

\* the catalog get_up_videos returned
CatalogItems == cat_result.value.items

Min(a, b) == IF a <= b THEN a ELSE b

\* how many videos the batch is to process: all, or the first max_videos
ToProcess ==
    IF max_videos = NoCap THEN Len(CatalogItems)
    ELSE Min(max_videos, Len(CatalogItems))

\* C14: for a catalog of n videos and a cap max_videos >= 0,
\* download_up_videos attempts the first min(max_videos, n) videos in their
\* order and no others; without a cap it attempts all n.
C14_BatchCap ==
    (BatchEnded /\ CatalogResolved) =>
        attempted = SubSeq(CatalogItems, 1, ToProcess)

\* C19: a batch of n top-level videos pauses n - 1 times, and not at all
\* for n <= 1.
C19_BatchPause ==
    (BatchEnded /\ CatalogResolved) =>
        pauses = IF ToProcess <= 1 THEN 0 ELSE ToProcess - 1

-----------------------------------------------------------------------------
(* Properties of the extractor and of download_video *)

InfoReturned == requests # <<>>

AllRequestsOk == \A k \in 1..Len(requests) : requests[k].ok

BarePage ==
    /\ page.title = Absent
    /\ page.up_info = "absent"
    /\ page.time = "absent"
    /\ page.cover = Absent
    /\ page.parts = Absent

\* C9: get_video_info on a successfully fetched page without any optional
\* element returns a metadata record with title "Unknown Title", uploader id
\* "0", an empty cover URL, has_multi_p false and an empty part list.
C9_DefaultsOnBarePage ==
    (InfoReturned /\ AllRequestsOk /\ BarePage) =>
        /\ video_info.ok
        /\ video_info.title = UnknownTitle
        /\ video_info.uploader_uid = "0"
        /\ video_info.cover_url = ""
        /\ video_info.has_multi_p = FALSE
        /\ video_info.multi_p = <<>>

PartCount == IF IsPresent(page.parts) THEN Len(ValueOf(page.parts)) ELSE 0

\* C10: a page whose part list has one entry resolves to a single-part video
\* for which download_video makes one acquire call, for the video itself; a
\* page with k >= 2 entries resolves to a multi-part video with k parts.
C10_MultiPartNormalization ==
    (InfoReturned /\ AllRequestsOk /\ PartCount >= 1) =>
        /\ video_info.ok
        /\ PartCount = 1 =>
             /\ video_info.has_multi_p = FALSE
             /\ acquire_calls = << [vid |-> BaseVid, title |-> video_info.title] >>
        /\ PartCount >= 2 =>
             /\ video_info.has_multi_p = TRUE
             /\ Len(video_info.multi_p) = PartCount

\* get_multi_p_info has returned to get_video_info
PartInfoReturned == part_info.type # "NotCalled"

\* C11: every value get_multi_p_info returns is a Multi-Part Descriptor whose
\* part_list is empty when has_multi_part is false and has at least one entry
\* when has_multi_part is true, for every page (also one whose part-list
\* region holds no entry) and on a failed fetch.
C11_DescriptorInvariant ==
    PartInfoReturned =>
        /\ part_info.type = "MultiPartInfo"
        /\ ~part_info.has_multi_part => part_info.part_list = <<>>
        /\ part_info.has_multi_part => Len(part_info.part_list) >= 1

\* downloader.py:69: f"{video_info['title']}_p{i+1}_{part['title']}"
part_filename(parent, k, ptitle) == parent \o <<"_p", ToString(k), "_">> \o ptitle

\* the calls that ask the extractor for the part list
PartListRequests == {k \in 1..Len(requests) : requests[k].by = "get_multi_p_info"}

\* C12: for a multi-part video download_video obtains the part list once and
\* makes one acquire call per part, in page order, the k-th named
\* "<parent title>_p<k>_<part title>"; for a single-part video it makes one
\* acquire call named with the video's title.
C12_AcquirePerPart ==
    (dv_pc = "returned" /\ AllRequestsOk) =>
        /\ PartCount <= 1 =>
             /\ Len(acquire_calls) = 1
             /\ acquire_calls[1].title = parsed_title(page)
        /\ PartCount >= 2 =>
             /\ Cardinality(PartListRequests) = 1
             /\ Len(acquire_calls) = PartCount
             /\ \A k \in 1..PartCount :
                  acquire_calls[k].title =
                      part_filename(parsed_title(page), k,
                                    ValueOf(ValueOf(page.parts)[k].title))

\* every entry of the part list has a navigation target "/v/ac<base>_<k>"
AllTargetsParse ==
    \A k \in 1..PartCount : ValueOf(page.parts)[k].href_ok

\* C13: the part whose navigation target is "/v/ac<base>_<k>" is acquired
\* under the identifier "<base>_<k>": the parts of one video are acquired
\* under distinct identifiers, none under the bare base identifier.
C13_PartIdRoundTrip ==
    (dv_pc = "returned" /\ AllRequestsOk /\ PartCount >= 2 /\ AllTargetsParse) =>
        /\ Len(acquire_calls) = PartCount
        /\ \A k \in 1..PartCount : acquire_calls[k].vid = PartVid(k)

\* C20: a call of get_video_info sends exactly one page request, whether it
\* ends in a metadata record or in a failure.
C20_OneRequestPerCall ==
    InfoReturned => Len(requests) = 1

-----------------------------------------------------------------------------
(* Properties of get_up_videos *)

\* the positions of cat_log that are page requests, and the pages requested
RequestPositions == {k \in 1..Len(cat_log) : cat_log[k].kind = "request"}

RequestedPages == {cat_log[k].page : k \in RequestPositions}

\* the least number of pages of PageSize entries that hold t entries
CeilPages(t) == CHOOSE p \in 0..t : p * PageSize >= t /\ (p - 1) * PageSize < t

\* C15: with declared total T the catalog fetch sends one request when the
\* flag is off or T <= 20, and ceil(T / 20) requests, one for each of the
\* pages 1..ceil(T / 20), when the flag is on and T > 20.
C15_PaginationCount ==
    cat_pc \in {"returned", "raised"} =>
        LET expected == IF fetch_all_pages /\ video_count > PageSize
                        THEN CeilPages(video_count) ELSE 1
        IN  /\ Cardinality(RequestPositions) = expected
            /\ RequestedPages = 1..expected

\* a declared total that needs a last, partly filled page: every page fetched
C15_Witness ==
    /\ cat_pc = "returned"
    /\ fetch_all_pages
    /\ video_count = (MaxPages - 1) * PageSize + 1
    /\ Cardinality(RequestPositions) = MaxPages

\* the entries the logged requests served, page after page, each page's
\* entries in their on-page order
RECURSIVE ServedInOrder(_)
ServedInOrder(log) ==
    IF log = <<>> THEN <<>>
    ELSE LET e == Head(log)
         IN  (IF e.kind = "request" /\ e.ok
              THEN [k \in 1..e.entries |-> [type |-> "dict", page |-> e.page, pos |-> k]]
              ELSE <<>>) \o ServedInOrder(Tail(log))

\* the parsing of the landing page is behind get_up_videos
CatalogListed == cat_pc = "pages" \/ (cat_pc = "returned" /\ cat_result.ok)

\* C16: the pages are requested in increasing page order, one after the
\* other, and the video list is the concatenation of the fetched pages'
\* entries in page order, each page's entries in their on-page order.
C16_CatalogOrdering ==
    /\ \A j, k \in RequestPositions : j < k => cat_log[j].page < cat_log[k].page
    /\ CatalogListed => video_list = ServedInOrder(cat_log)
    /\ (cat_pc = "returned" /\ cat_result.ok) =>
          cat_result.value.items = ServedInOrder(cat_log)

\* two pages that each served MaxEntries entries were concatenated
C16_Witness ==
    /\ cat_pc = "returned"
    /\ Len(cat_result.value.items) = 2 * MaxEntries
    /\ cat_result.value.items[1].page = 1
    /\ cat_result.value.items[2 * MaxEntries] = [type |-> "dict", page |-> 2, pos |-> MaxEntries]

\* the requests of the pages after the landing page that failed
FailedPages ==
    {cat_log[k].page : k \in {j \in RequestPositions : ~cat_log[j].ok /\ cat_log[j].page >= 2}}

\* C17: when the fetch of a page p >= 2 fails, that page adds no entry, every
\* later page up to the last is still requested, and get_up_videos returns
\* the entries of the pages that succeeded; it neither raises nor returns
\* None because of page p.
C17_PartialResultTolerance ==
    /\ FailedPages # {} => cat_pc \in {"pages", "returned"}
    /\ (cat_pc = "returned" /\ FailedPages # {}) =>
          /\ cat_result.ok
          /\ \A p \in FailedPages :
               /\ \A q \in (p + 1)..total_pages : q \in RequestedPages
               /\ \A k \in 1..Len(cat_result.value.items) :
                    cat_result.value.items[k].page # p
          /\ \A j \in RequestPositions :
               cat_log[j].ok =>
                   \A i \in 1..cat_log[j].entries :
                       \E k \in 1..Len(cat_result.value.items) :
                           cat_result.value.items[k] =
                               [type |-> "dict", page |-> cat_log[j].page, pos |-> i]

\* page 2 failed, the last page was still fetched and its entry returned
C17_Witness ==
    /\ cat_pc = "returned"
    /\ 2 \in FailedPages
    /\ total_pages = MaxPages
    /\ \E k \in 1..Len(cat_result.value.items) :
           cat_result.value.items[k].page = MaxPages

\* C18: between two consecutive page requests of get_up_videos there is a
\* sleep, whether or not the earlier request succeeded.
C18_InterPageThrottle ==
    \A k \in 1..(Len(cat_log) - 1) :
        ~(cat_log[k].kind = "request" /\ cat_log[k + 1].kind = "request")

-----------------------------------------------------------------------------
(* Properties of the stream resolver and of the multi-part outcome *)

\* _get_video_streams has returned to the acquisition
ResolverReturned == pc \notin {"idle", "call"}

\* C23: _get_video_streams returns None exactly when the page request fails
\* or the videoInfo blob is absent or cannot be decoded; otherwise it returns
\* a Stream Set whose keys are among the four tiers and whose every entry
\* carries a video and an audio location.
C23_ResolverContract ==
    (ResolverReturned /\ resolver # Patched) =>
        /\ ~streams.ok <=> resolver \in {"request_failed", "no_video_info", "bad_json"}
        /\ streams.ok =>
             /\ streams.tiers \subseteq {"1080p", "720p", "480p", "360p"}
             /\ DOMAIN streams.entries = streams.tiers
             /\ \A q \in streams.tiers : {"video", "audio"} \subseteq streams.entries[q]

\* the blob was decoded and the two downloads of the selected tier submitted
C23_Witness ==
    /\ resolver = "ok"
    /\ streams.ok
    /\ streams.tiers = {"720p", "480p"}
    /\ Submitted

\* the parts whose navigation target holds an identifier
ParseableParts == {k \in 1..PartCount : ValueOf(page.parts)[k].href_ok}

\* C29: download_video on a multi-part video attempts every part whose
\* identifier parses, also after an earlier part failed, and returns True
\* only if every part had a parseable identifier.
C29_MultiPartOutcome ==
    (dv_pc = "returned" /\ AllRequestsOk /\ PartCount >= 2) =>
        /\ Len(acquire_calls) = Cardinality(ParseableParts)
        /\ dv_result = TRUE => AllTargetsParse

-----------------------------------------------------------------------------
(* Properties of main *)

MainEnded == main_pc \notin {"idle", "running"}

\* get_up_videos ended without a catalog: it returned None or raised
CatalogUnresolved == cat_pc = "raised" \/ (cat_pc = "returned" /\ ~cat_result.ok)

\* C24: main returns 0 when the command succeeded and 1 otherwise: for video,
\* 0 exactly when download_video returned True; for info, 1 exactly when the
\* metadata was not resolved; for up, 1 when the catalog was not resolved.
C24_ExitCode ==
    MainEnded =>
        /\ main_pc = "returned"
        /\ exit_code \in {0, 1}
        /\ command = "video" => (exit_code = 0 <=> dv_result = TRUE)
        /\ command = "info" => (exit_code = 1 <=> ~video_info.ok)
        /\ (command = "up" /\ CatalogUnresolved) => exit_code = 1

\* the part of C24 about the video and the info command
ExitCodeOfVideoAndInfo ==
    (MainEnded /\ command \in {"video", "info"}) =>
        /\ main_pc = "returned"
        /\ command = "video" => (exit_code = 0 <=> dv_result = TRUE)
        /\ command = "info" => (exit_code = 1 <=> ~video_info.ok)

\* the requests of the uploader's landing page
LandingRequests == {k \in RequestPositions : cat_log[k].page = 1}

\* download_up_videos is past its call of get_up_videos
CatalogCallEnded == up_pc \in {"loop", "returned", "raised"}

\* C30: a call of download_up_videos resolves the catalog once, with
\* fetch_all_pages set whatever --all-pages was: every page the declared
\* total asks for is requested also when the flag is off.
C30_ExhaustiveCatalog ==
    command = "up" =>
        /\ cat_pc # "idle" => fetch_all_pages = TRUE
        /\ Cardinality(LandingRequests) <= 1
        /\ CatalogCallEnded =>
             /\ Cardinality(LandingRequests) = 1
             /\ (cat_pc = "returned" /\ cat_result.ok /\ video_count > PageSize) =>
                   RequestedPages = 1..CeilPages(video_count)

\* --all-pages was not given and the pages after the first were requested
C30_Witness ==
    /\ command = "up"
    /\ ~all_pages
    /\ CatalogCallEnded
    /\ Cardinality(RequestPositions) = MaxPages

-----------------------------------------------------------------------------
(* Properties of the identifiers *)

\* the value stored last under the key as the caller means it
StoredLast(k) ==
    IF \E p \in id_last : p.k = KeyClass(k)
    THEN (CHOOSE p \in id_last : p.k = KeyClass(k)).v
    ELSE "KeyError"

\* C26: two identifiers are equal exactly when their strings are, equal
\* identifiers have equal hashes, an identifier never equals a value that is
\* not an identifier, and a dict keyed by identifiers returns for any two
\* equal identifiers the same entry, the one stored last under that string.
C26_IdentifierEquality ==
    /\ \A a, b \in Identifiers :
          /\ AcfunId_eq(a, b) <=> a.value = b.value
          /\ AcfunId_eq(a, b) => AcfunId_hash(a) = AcfunId_hash(b)
          /\ a.value = b.value => dict_get(id_map, a) = dict_get(id_map, b)
    /\ \A a \in Identifiers, x \in NonIdentifiers :
          ~AcfunId_eq(a, x) /\ ~py_eq(x, a)
    /\ \A k \in DictKeys : dict_get(id_map, k) = StoredLast(k)
    /\ id_found # NoLookup => id_found.val \in DictValues \cup {"KeyError"}

\* an entry stored under Vid("1") was found with Uid("1"), beside entries
\* stored under the string "1" and under the tuple ("1",)
C26_Witness ==
    /\ [key |-> Vid("1"), val |-> "x"] \in id_map
    /\ [key |-> PyStr("1"), val |-> "y"] \in id_map
    /\ [key |-> PyTuple("1"), val |-> "y"] \in id_map
    /\ id_found = [key |-> Uid("1"), val |-> "x"]

====
